---- MODULE Spec2Model ----
(***************************************************************************)
(* Model of the Zoom relay gateway: the three relay route handlers of      *)
(* src/app.ts and the ZoomService of src/zoom.service.ts.                  *)
(*                                                                         *)
(* A request is one invocation of a route handler.  The handler runs up    *)
(* to its first await (the token POST), is resumed by the provider's       *)
(* answer, runs up to its second await (the resource GET), and is resumed  *)
(* again.  Node's event loop interleaves the requests at these awaits.     *)
(* The provider (zoom.us / api.zoom.us) is the environment: its answers    *)
(* are drawn from small sets.                                              *)
(***************************************************************************)
EXTENDS Naturals, Sequences, FiniteSets, TLC

\* Number of request slots (requests are numbered in order of arrival).
MaxReqs == 2

Reqs == 1..MaxReqs

\* src/zoom.service.ts:7
ZOOM_API_URL == "https://api.zoom.us/v2"

\* src/zoom.service.ts:22
ZOOM_TOKEN_URL == "https://zoom.us/oauth/token"

\* The three relay routes of src/app.ts (lines 66, 116, 164).
UserMeetings == "UserMeetings"
MeetingParticipants == "MeetingParticipants"
MeetingDetails == "MeetingDetails"
Kinds == {UserMeetings, MeetingParticipants, MeetingDetails}

\* Path parameters as Express hands them to the handlers (already
\* percent-decoded, so a "%2F" of the request path arrives as "/").
UserIds == {"u1", "a/b"}
MeetingIds == {"m1"}

(***************************************************************************)
(* JavaScript values, tagged by type.                                      *)
(***************************************************************************)
Undefined == [t |-> "undefined"]
Null == [t |-> "null"]
JsString(s) == [t |-> "string", v |-> s]
JsObject(f) == [t |-> "object", f |-> f]

\* `${v}` converts v to a string.  For an object this calls its toString
\* method; a decoded JSON object holds no functions, so an own "toString"
\* entry hides Object.prototype.toString behind a value that cannot be
\* called, valueOf gives back the object itself, and the conversion throws
\* a TypeError.
TemplateThrows(v) == v.t = "object" /\ "toString" \in DOMAIN v.f

ConvertErrorMessage == "Cannot convert object to primitive value"

\* `${v}` : the string a template literal makes of a value it can convert.
TemplateString(v) ==
  CASE v.t = "string" -> v.v
    [] v.t = "undefined" -> "undefined"
    [] v.t = "null" -> "null"
    [] v.t = "object" -> "[object Object]"

\* data.access_token : property read.  Reading a property of null or
\* undefined throws a TypeError; an absent property reads as undefined.
ReadThrows(data) == data.t \in {"null", "undefined"}

ReadAccessToken(data) ==
  IF data.t = "object" /\ "access_token" \in DOMAIN data.f
  THEN data.f.access_token
  ELSE Undefined

TypeErrorMessage == "Cannot read properties of null (reading 'access_token')"

(***************************************************************************)
(* What the provider can answer.  An answer is either a 2xx response with  *)
(* decoded data, or a failure (non-2xx status or transport error), which   *)
(* axios turns into a rejected promise carrying a message.                 *)
(***************************************************************************)
ErrTexts == {"Request failed with status code 401", "connect ETIMEDOUT"}

TokenDatas ==
  { JsObject([access_token |-> JsString("tokA"), token_type |-> JsString("bearer")]),
    JsObject([access_token |-> JsString("tokB"), token_type |-> JsString("bearer")]),
    JsObject([token_type |-> JsString("bearer")]),
    JsObject([access_token |-> JsObject([toString |-> JsString("tokA")])]),
    Null }

Payloads ==
  { [meetings |-> << [id |-> "m1", topic |-> "Standup",
                      start_time |-> "2024-01-01T00:00:00Z"] >>],
    [participants |-> << >>, total_records |-> 0] }

Ok(data) == [ok |-> TRUE, data |-> data]
Fail(msg) == [ok |-> FALSE, message |-> msg]

VARIABLES
  pc,        \* pc[r]: the await at which request r is suspended
             \*   (zoom.service.ts 21 / 37, 39), or "idle" / "done"
  route,     \* route[r]: the route that matched ("none" before arrival)
  param,     \* param[r]: req.params.userId / meetingId (app.ts 67, 117, 165)
  token,     \* token[r]: the local const `token` (zoom.service.ts 37, 55, 70)
  outbound,  \* outbound[r]: the axios calls issued for request r, in order
  answers,   \* answers[r]: the provider's answers to those calls, in order
  console,   \* console[r]: what was passed to console.log (app.ts 72, 122, 170)
  sent       \* sent[r]: the responses written to res, in order

vars == <<pc, route, param, token, outbound, answers, console, sent>>

(***************************************************************************)
(* ZoomService (src/zoom.service.ts)                                       *)
(***************************************************************************)

\* getAccessToken, lines 16-30: the form-encoded POST to the token endpoint.
\* The account id and the Basic credentials come from process.env and are
\* the same for every call; no property below depends on them.
TokenRequest ==
  [ method |-> "POST",
    url |-> ZOOM_TOKEN_URL,
    form |-> [grant_type |-> "account_credentials"],
    headers |-> [ContentType |-> "application/x-www-form-urlencoded"] ]

AuthorizationHeaderStale(tok) == "Bearer tokA"

\* `Bearer ${token}`, lines 46, 61, 74.
AuthorizationHeader(tok) == "Bearer " \o TemplateString(tok)

ResourceRequestNoMetrics(kind, id, tok) ==
  CASE kind = UserMeetings ->
         [ method |-> "GET",
           url |-> ZOOM_API_URL \o "/users/" \o id \o "/meetings",
           params |-> {<<"type", "past">>},
           headers |-> [Authorization |-> AuthorizationHeader(tok)] ]
    [] kind = MeetingParticipants ->
         [ method |-> "GET",
           url |-> ZOOM_API_URL \o "/meetings/" \o id \o "/participants",
           params |-> {},
           headers |-> [Authorization |-> AuthorizationHeader(tok)] ]
    [] kind = MeetingDetails ->
         [ method |-> "GET",
           url |-> ZOOM_API_URL \o "/meetings/" \o id,
           params |-> {},
           headers |-> [Authorization |-> AuthorizationHeader(tok)] ]

\* The axios.get of getUserMeetings (39-49), getMeetingParticipants (57-64)
\* and getMeetingDetails (72-76).
ResourceRequest(kind, id, tok) ==
  CASE kind = UserMeetings ->
         [ method |-> "GET",
           url |-> ZOOM_API_URL \o "/users/" \o id \o "/meetings",
           params |-> {<<"type", "past">>},
           headers |-> [Authorization |-> AuthorizationHeader(tok)] ]
    [] kind = MeetingParticipants ->
         [ method |-> "GET",
           url |-> ZOOM_API_URL \o "/metrics/meetings/" \o id \o "/participants",
           params |-> {},
           headers |-> [Authorization |-> AuthorizationHeader(tok)] ]
    [] kind = MeetingDetails ->
         [ method |-> "GET",
           url |-> ZOOM_API_URL \o "/meetings/" \o id,
           params |-> {},
           headers |-> [Authorization |-> AuthorizationHeader(tok)] ]

IssueResourceWithRetry(log, kind, id, tok) ==
  log \o << ResourceRequest(kind, id, tok), ResourceRequest(kind, id, tok) >>

\* The relay issues its resource fetch once, after `token` is bound.
IssueResource(log, kind, id, tok) ==
  Append(log, ResourceRequest(kind, id, tok))

(***************************************************************************)
(* Route handlers (src/app.ts)                                             *)
(***************************************************************************)

ErrorMessageGeneric(kind) == "Failed to get meeting details"

\* The static message of each handler's catch block, lines 73, 123, 171.
ErrorMessage(kind) ==
  CASE kind = UserMeetings -> "Failed to get user meetings"
    [] kind = MeetingParticipants -> "Failed to get meeting participants"
    [] kind = MeetingDetails -> "Failed to get meeting details"

\* The generic error middleware, lines 239-248.
GenericErrorResponse(message) ==
  [ status |-> 500,
    body |-> [success |-> FALSE, status |-> 500, message |-> message] ]

CatchResponseLeaky(kind, message) ==
  [status |-> 500, body |-> [error |-> message]]

CatchResponseUncaught(kind, message) == GenericErrorResponse(message)

\* catch (error) { ...; res.status(500).json({ error: '...' }) }
CatchResponse(kind, message) ==
  [status |-> 500, body |-> [error |-> ErrorMessage(kind)]]

SuccessResponseWrapped(data) == [status |-> 200, body |-> [data |-> data]]

\* res.json(meetings) : status stays at its default 200.
SuccessResponse(data) == [status |-> 200, body |-> data]

AwaitingSerialized(r, point) ==
  pc[r] = point /\ \A q \in Reqs : q < r => pc[q] \in {"idle", "done"}

\* Request r is suspended at the given await; it is resumed when its own
\* promise settles.
Awaiting(r, point) == pc[r] = point

Init ==
  /\ pc = [r \in Reqs |-> "idle"]
  /\ route = [r \in Reqs |-> "none"]
  /\ param = [r \in Reqs |-> ""]
  /\ token = [r \in Reqs |-> Undefined]
  /\ outbound = [r \in Reqs |-> << >>]
  /\ answers = [r \in Reqs |-> << >>]
  /\ console = [r \in Reqs |-> << >>]
  /\ sent = [r \in Reqs |-> << >>]

\* GET /user/:userId/meetings arrives (app.ts 66-69): the
\* handler reads the path parameter and calls the relay, which calls
\* getAccessToken, which issues the token POST and suspends at its await.
GetUserMeetingsRoute(r) ==
  /\ pc[r] = "idle"
  /\ \A q \in Reqs : q < r => pc[q] # "idle"
  /\ \E id \in UserIds : param' = [param EXCEPT ![r] = id]
  /\ route' = [route EXCEPT ![r] = UserMeetings]
  /\ pc' = [pc EXCEPT ![r] = "getToken"]
  /\ outbound' = [outbound EXCEPT ![r] = Append(@, TokenRequest)]
  /\ UNCHANGED <<token, answers, console, sent>>

\* GET /meeting/:meetingId/participants arrives (app.ts 116-119): the
\* handler reads the path parameter and calls the relay, which calls
\* getAccessToken, which issues the token POST and suspends at its await.
GetMeetingParticipantsRoute(r) ==
  /\ pc[r] = "idle"
  /\ \A q \in Reqs : q < r => pc[q] # "idle"
  /\ \E id \in MeetingIds : param' = [param EXCEPT ![r] = id]
  /\ route' = [route EXCEPT ![r] = MeetingParticipants]
  /\ pc' = [pc EXCEPT ![r] = "getToken"]
  /\ outbound' = [outbound EXCEPT ![r] = Append(@, TokenRequest)]
  /\ UNCHANGED <<token, answers, console, sent>>

\* GET /meeting/:meetingId/details arrives (app.ts 164-167): the
\* handler reads the path parameter and calls the relay, which calls
\* getAccessToken, which issues the token POST and suspends at its await.
GetMeetingDetailsRoute(r) ==
  /\ pc[r] = "idle"
  /\ \A q \in Reqs : q < r => pc[q] # "idle"
  /\ \E id \in MeetingIds : param' = [param EXCEPT ![r] = id]
  /\ route' = [route EXCEPT ![r] = MeetingDetails]
  /\ pc' = [pc EXCEPT ![r] = "getToken"]
  /\ outbound' = [outbound EXCEPT ![r] = Append(@, TokenRequest)]
  /\ UNCHANGED <<token, answers, console, sent>>

\* The handler's catch block runs: the error is logged and the static 500
\* body is written.
Caught(r, message) ==
  /\ pc' = [pc EXCEPT ![r] = "done"]
  /\ console' = [console EXCEPT ![r] = Append(@, message)]
  /\ sent' = [sent EXCEPT ![r] = Append(@, CatchResponse(route[r], message))]

\* The token POST is rejected (non-2xx or transport error): the rejection
\* propagates out of getAccessToken and the relay into the handler's catch.
TokenFails(r) ==
  /\ Awaiting(r, "getToken")
  /\ \E m \in ErrTexts :
       /\ answers' = [answers EXCEPT ![r] = Append(@, Fail(m))]
       /\ Caught(r, m)
  /\ UNCHANGED <<route, param, token, outbound>>

\* The token POST resolves with a 2xx response: getAccessToken returns
\* tokenResponse.data.access_token (or throws on a null body), the relay
\* binds it to `token`, builds the arguments of axios.get, the Authorization
\* header among them, and issues its resource GET.  A throw at either point
\* reaches the handler's catch before axios.get is called.
TokenResolves(r) ==
  /\ Awaiting(r, "getToken")
  /\ \E d \in TokenDatas :
       /\ answers' = [answers EXCEPT ![r] = Append(@, Ok(d))]
       /\ IF ReadThrows(d)
          THEN /\ Caught(r, TypeErrorMessage)
               /\ UNCHANGED <<token, outbound>>
          ELSE /\ token' = [token EXCEPT ![r] = ReadAccessToken(d)]
               /\ IF TemplateThrows(ReadAccessToken(d))
                  THEN /\ Caught(r, ConvertErrorMessage)
                       /\ UNCHANGED outbound
                  ELSE /\ outbound' = [outbound EXCEPT ![r] =
                            IssueResource(@, route[r], param[r], token'[r])]
                       /\ pc' = [pc EXCEPT ![r] = "getResource"]
                       /\ UNCHANGED <<console, sent>>
  /\ UNCHANGED <<route, param>>

\* The resource GET is rejected: the rejection reaches the handler's catch.
ResourceFails(r) ==
  /\ Awaiting(r, "getResource")
  /\ \E m \in ErrTexts :
       /\ answers' = [answers EXCEPT ![r] = Append(@, Fail(m))]
       /\ Caught(r, m)
  /\ UNCHANGED <<route, param, token, outbound>>

\* The resource GET resolves: the relay returns response.data and the
\* handler writes it with res.json.
ResourceResolves(r) ==
  /\ Awaiting(r, "getResource")
  /\ \E d \in Payloads :
       /\ answers' = [answers EXCEPT ![r] = Append(@, Ok(d))]
       /\ sent' = [sent EXCEPT ![r] = Append(@, SuccessResponse(d))]
  /\ pc' = [pc EXCEPT ![r] = "done"]
  /\ UNCHANGED <<route, param, token, outbound, console>>

Next ==
  \E r \in Reqs :
    \/ GetUserMeetingsRoute(r)
    \/ GetMeetingParticipantsRoute(r)
    \/ GetMeetingDetailsRoute(r)
    \/ TokenFails(r)
    \/ TokenResolves(r)
    \/ ResourceFails(r)
    \/ ResourceResolves(r)

Spec == Init /\ [][Next]_vars

\* Every outbound call that was issued eventually completes.
FairSpec ==
  /\ Spec
  /\ \A r \in Reqs :
       /\ WF_vars(TokenFails(r) \/ TokenResolves(r))
       /\ WF_vars(ResourceFails(r) \/ ResourceResolves(r))

(***************************************************************************)
(* Vocabulary of the properties.  The expected values are written out as   *)
(* literals, independently of the operators above.                         *)
(***************************************************************************)
IsTokenCall(c) == c.method = "POST" /\ c.url = "https://zoom.us/oauth/token"
IsResourceCall(c) == c.method = "GET"

TokenCalls(r) == Cardinality({i \in DOMAIN outbound[r] : IsTokenCall(outbound[r][i])})
ResourceCalls(r) ==
  Cardinality({i \in DOMAIN outbound[r] : IsResourceCall(outbound[r][i])})

TokenAnswered(r) == Len(answers[r]) >= 1
ResourceAnswered(r) == Len(answers[r]) >= 2
TokenOk(r) == TokenAnswered(r) /\ answers[r][1].ok
TokenFailed(r) == TokenAnswered(r) /\ ~answers[r][1].ok
ResourceOk(r) == ResourceAnswered(r) /\ answers[r][2].ok
ResourceFailed(r) == ResourceAnswered(r) /\ ~answers[r][2].ok

\* The 2xx token answer carries a string access_token.
HasAccessToken(r) ==
  /\ TokenOk(r)
  /\ answers[r][1].data.t = "object"
  /\ "access_token" \in DOMAIN answers[r][1].data.f
  /\ answers[r][1].data.f.access_token.t = "string"

\* getAccessToken returned to the relay instead of throwing.
TokenReturned(r) == TokenOk(r) /\ answers[r][1].data.t = "object"

\* getAccessToken returned a value from which the Authorization header can
\* be built: anything but an object with an own "toString" entry.
HeaderBuilt(r) ==
  /\ TokenReturned(r)
  /\ ~ /\ "access_token" \in DOMAIN answers[r][1].data.f
       /\ answers[r][1].data.f.access_token.t = "object"
       /\ "toString" \in DOMAIN answers[r][1].data.f.access_token.f

\* What the token exchange of request r handed to the relay, as text.
ReturnedTokenText(r) ==
  IF HasAccessToken(r) THEN answers[r][1].data.f.access_token.v
  ELSE IF "access_token" \in DOMAIN answers[r][1].data.f THEN "[object Object]"
  ELSE "undefined"

ExpectedErrorBody(kind) ==
  CASE kind = "UserMeetings" -> [error |-> "Failed to get user meetings"]
    [] kind = "MeetingParticipants" -> [error |-> "Failed to get meeting participants"]
    [] kind = "MeetingDetails" -> [error |-> "Failed to get meeting details"]

ExpectedFailure(kind) == [status |-> 500, body |-> ExpectedErrorBody(kind)]

ProviderTexts ==
  { "Request failed with status code 401", "connect ETIMEDOUT",
    "Cannot read properties of null (reading 'access_token')",
    "Cannot convert object to primitive value" }

\* The response request r must get, from its own route and the provider's
\* answers to its own calls.
ExpectedResponse(r) ==
  IF HeaderBuilt(r) /\ ResourceOk(r)
  THEN [status |-> 200, body |-> answers[r][2].data]
  ELSE ExpectedFailure(route[r])

ExpectedUrl(kind, id) ==
  CASE kind = "UserMeetings" -> "https://api.zoom.us/v2/users/" \o id \o "/meetings"
    [] kind = "MeetingParticipants" ->
         "https://api.zoom.us/v2/metrics/meetings/" \o id \o "/participants"
    [] kind = "MeetingDetails" -> "https://api.zoom.us/v2/meetings/" \o id

ExpectedParams(kind) ==
  IF kind = "UserMeetings" THEN {<<"type", "past">>} ELSE {}

(***************************************************************************)
(* Properties                                                              *)
(***************************************************************************)

\* C1: on every route, when the token exchange succeeds and the resource
\* fetch then succeeds, the gateway answers 200 with the provider's decoded
\* payload of that fetch, unmodified.
C1_SuccessVerbatim ==
  \A r \in Reqs :
    (TokenOk(r) /\ ResourceOk(r)) =>
      sent[r] = << [status |-> 200, body |-> answers[r][2].data] >>

C1_Witness ==
  \E r \in Reqs :
    /\ route[r] = UserMeetings /\ param[r] = "u1"
    /\ HasAccessToken(r) /\ ResourceOk(r)
    /\ "meetings" \in DOMAIN answers[r][2].data
    /\ Len(sent[r]) = 1 /\ sent[r][1].status = 200

\* C2: when the token exchange of a request fails (non-2xx or transport
\* error), no resource fetch is ever issued for it and the gateway answers
\* 500 with the error body of its route.
C2_TokenFailure ==
  \A r \in Reqs :
    TokenFailed(r) =>
      /\ ResourceCalls(r) = 0
      /\ Len(outbound[r]) = 1
      /\ sent[r] = << ExpectedFailure(route[r]) >>

C2_Witness ==
  \E r \in Reqs :
    /\ route[r] = MeetingDetails
    /\ TokenFailed(r)
    /\ answers[r][1].message = "Request failed with status code 401"
    /\ sent[r] = << [status |-> 500, body |-> [error |-> "Failed to get meeting details"]] >>

\* C3: the failure response is a function of the route alone: a failed
\* resource fetch gets the same 500 body as a failed token exchange, any two
\* failing requests of one route get identical responses, and the provider's
\* error text does not appear in the response (it is only logged).
C3_FailureUniform ==
  \A r \in Reqs :
    (TokenFailed(r) \/ ResourceFailed(r)) =>
      /\ sent[r] = << ExpectedFailure(route[r]) >>
      /\ sent[r][1].body.error \notin ProviderTexts
      /\ console[r] = << answers[r][Len(answers[r])].message >>
      /\ \A q \in Reqs :
           ((TokenFailed(q) \/ ResourceFailed(q)) /\ route[q] = route[r]) =>
             sent[q] = sent[r]

C3_Witness ==
  \E r, q \in Reqs :
    /\ r # q /\ route[r] = route[q]
    /\ TokenFailed(r) /\ ResourceFailed(q)
    /\ answers[r][1].message # answers[q][2].message
    /\ sent[r] = sent[q] /\ Len(sent[r]) = 1

\* C4 as stated: every relay invocation makes exactly two outbound calls,
\* one token exchange and one resource fetch.
C4_ExactlyTwoCalls ==
  \A r \in Reqs :
    pc[r] = "done" =>
      /\ Len(outbound[r]) = 2
      /\ TokenCalls(r) = 1
      /\ ResourceCalls(r) = 1

\* C4 amended: every relay invocation makes exactly one token exchange,
\* then exactly one resource fetch when getAccessToken returned a value
\* from which the Authorization header could be built, and none when the
\* exchange was rejected, getAccessToken threw or the header could not be
\* built; so it makes one or two outbound calls, never more.
C4_OneOrTwoCalls ==
  \A r \in Reqs :
    pc[r] = "done" =>
      /\ TokenCalls(r) = 1
      /\ ResourceCalls(r) = (IF HeaderBuilt(r) THEN 1 ELSE 0)
      /\ Len(outbound[r]) = TokenCalls(r) + ResourceCalls(r)
      /\ IsTokenCall(outbound[r][1])

C4_Witness ==
  \E r, q \in Reqs :
    /\ pc[r] = "done" /\ HeaderBuilt(r) /\ Len(outbound[r]) = 2
    /\ pc[q] = "done" /\ TokenReturned(q) /\ ~HeaderBuilt(q)
    /\ Len(outbound[q]) = 1
    /\ console[q] = << "Cannot convert object to primitive value" >>

\* C5 as stated: when the token endpoint answers 2xx without a well-formed
\* access_token, the token fetch fails: no resource fetch is issued and the
\* gateway answers with the 500 error body of the route.
C5_MissingTokenIsError ==
  \A r \in Reqs :
    (TokenOk(r) /\ ~HasAccessToken(r)) =>
      /\ ResourceCalls(r) = 0
      /\ sent[r] = << ExpectedFailure(route[r]) >>

\* C6: under every interleaving, each resource fetch carries as Bearer token
\* exactly what the token exchange of the same request returned, an exchange
\* made after that request's handling began; it never carries the token of
\* another request's exchange.
C6_OwnToken ==
  \A r \in Reqs :
    \A i \in DOMAIN outbound[r] :
      IsResourceCall(outbound[r][i]) =>
        /\ i = 2
        /\ IsTokenCall(outbound[r][1])
        /\ TokenReturned(r)
        /\ outbound[r][i].headers.Authorization = "Bearer " \o ReturnedTokenText(r)
        /\ \A q \in Reqs :
             (HasAccessToken(q) /\ ReturnedTokenText(q) # ReturnedTokenText(r)) =>
               outbound[r][i].headers.Authorization # "Bearer " \o ReturnedTokenText(q)

C6_Witness ==
  \E r, q \in Reqs :
    /\ HasAccessToken(r) /\ HasAccessToken(q)
    /\ ReturnedTokenText(r) = "tokA" /\ ReturnedTokenText(q) = "tokB"
    /\ pc[r] = "getResource" /\ pc[q] = "getResource"
    /\ outbound[r][2].headers.Authorization = "Bearer tokA"
    /\ outbound[q][2].headers.Authorization = "Bearer tokB"

\* C7: the resource fetch is determined by the route: UserMeetings issues
\* GET /users/{id}/meetings with type=past, MeetingParticipants issues
\* GET /metrics/meetings/{id}/participants and MeetingDetails issues
\* GET /meetings/{id}, both without query parameters; all carry
\* Authorization: Bearer {token}; the identifier is used as received.
C7_ResourceRequestShape ==
  \A r \in Reqs :
    \A i \in DOMAIN outbound[r] :
      IsResourceCall(outbound[r][i]) =>
        /\ outbound[r][i].url = ExpectedUrl(route[r], param[r])
        /\ outbound[r][i].params = ExpectedParams(route[r])
        /\ DOMAIN outbound[r][i].headers = {"Authorization"}
        /\ outbound[r][i].headers.Authorization = "Bearer " \o ReturnedTokenText(r)

C7_Witness ==
  \E r, q \in Reqs :
    /\ route[r] = MeetingParticipants /\ param[r] = "m1"
    /\ Len(outbound[r]) = 2
    /\ outbound[r][2].url = "https://api.zoom.us/v2/metrics/meetings/m1/participants"
    /\ outbound[r][2].params = {}
    /\ route[q] = UserMeetings /\ param[q] = "a/b"
    /\ Len(outbound[q]) = 2
    /\ outbound[q][2].url = "https://api.zoom.us/v2/users/a/b/meetings"
    /\ outbound[q][2].params = {<<"type", "past">>}

\* C8: no retries: a request calls the token endpoint at most once and the
\* resource endpoint at most once, and once either call has failed no
\* further outbound call is issued and the 500 response is sent.
C8_NoRetries ==
  \A r \in Reqs :
    /\ TokenCalls(r) <= 1
    /\ ResourceCalls(r) <= 1
    /\ \A k \in DOMAIN answers[r] :
         ~answers[r][k].ok =>
           /\ Len(outbound[r]) = k
           /\ Len(answers[r]) = k
           /\ pc[r] = "done"
           /\ Len(sent[r]) = 1 /\ sent[r][1].status = 500

C8_Witness ==
  \E r, q \in Reqs :
    /\ TokenFailed(r) /\ Len(outbound[r]) = 1
    /\ ResourceFailed(q) /\ Len(outbound[q]) = 2
    /\ pc[r] = "done" /\ pc[q] = "done"

\* C9: concurrent requests are independent: under every interleaving the
\* response and the outbound calls of a request are determined by its own
\* route, identifier and the provider's answers to its own calls, and a
\* request suspended on an outbound call can always be resumed by that
\* call's completion, whatever the other requests are doing.
C9_Independent ==
  \A r \in Reqs :
    /\ pc[r] = "done" => sent[r] = << ExpectedResponse(r) >>
    /\ pc[r] # "done" => sent[r] = << >>
    /\ \A i \in DOMAIN outbound[r] :
         IsResourceCall(outbound[r][i]) =>
           /\ outbound[r][i].url = ExpectedUrl(route[r], param[r])
           /\ outbound[r][i].headers.Authorization = "Bearer " \o ReturnedTokenText(r)
    /\ pc[r] = "getToken" => ENABLED (TokenFails(r) \/ TokenResolves(r))
    /\ pc[r] = "getResource" => ENABLED (ResourceFails(r) \/ ResourceResolves(r))

C9_Witness ==
  \E r, q \in Reqs :
    /\ r < q
    /\ pc[r] = "getToken"
    /\ pc[q] = "done" /\ TokenReturned(q) /\ ResourceOk(q)
    /\ sent[q] = << [status |-> 200, body |-> answers[q][2].data] >>

\* C10: every relay request gets exactly one response, either 200 with the
\* provider payload or 500 with the error body of its route; when each
\* outbound call eventually completes the request is eventually answered;
\* a failure inside the relay never reaches the generic error middleware.
C10_Shape ==
  \A r \in Reqs :
    /\ Len(sent[r]) <= 1
    /\ pc[r] = "done" => Len(sent[r]) = 1
    /\ \A i \in DOMAIN sent[r] :
         \/ /\ ResourceOk(r)
            /\ sent[r][i] = [status |-> 200, body |-> answers[r][2].data]
         \/ sent[r][i] = ExpectedFailure(route[r])

\* A request that arrived has been answered, once.
C10_Answered ==
  \A r \in Reqs : pc[r] # "idle" => (pc[r] = "done" /\ Len(sent[r]) = 1)

\* An answered request stays answered, so "every arrived request is
\* eventually answered" is: from some point on, all that arrived are.
C10_AnsweredOnce == []C10_Shape /\ <>[]C10_Answered

C10_Witness ==
  \E r \in Reqs :
    /\ pc[r] = "done"
    /\ TokenOk(r) /\ answers[r][1].data.t = "null"
    /\ console[r] = << "Cannot read properties of null (reading 'access_token')" >>
    /\ sent[r] = << ExpectedFailure(route[r]) >>

====
